---- MODULE Spec2Model ----
(***************************************************************************)
(* A model of clipper (src/src/clipper.py): the clip scheduler             *)
(* CollageMaker.collage and the render backend CollageMaker.write.         *)
(*                                                                         *)
(* Times are integers (ticks of one second).  A source file is named by    *)
(* its position in the file list.  rand.random() is a value u in           *)
(* 0..RandMax standing for the fraction u / RandMax.                       *)
(***************************************************************************)
EXTENDS Integers, Sequences, FiniteSets, TLC

\* ---------------------------------------------------------------- bounds
MaxFiles == 2
MaxDur == 5
MaxPeriod == 2
MaxLength == 3
RandMax == 16
MaxClips == 42
MaxTape == 4

\* ------------------------------------------------------------- constants
\* write(): LIMIT, the batch size
LIMIT == 20

\* ------------------------------------------------------------- variables
VARIABLES
    files,           \* self.files: the duration of each file, in the order given
    period,          \* self.period
    length,          \* self.length
    shuffle,         \* self.shuffle
    footage,         \* collage: footage, a list of VidData
    footage_length,  \* collage: footage_length
    bag,             \* collage: bag
    starts,          \* collage: starts
    subclips,        \* collage: subclips, a list of ClipInfo
    count,           \* collage: the length of range(int(length / period))
    pc,              \* where collage() is, or how it ended
    handed,          \* the list collage() passed to self.write
    rr_drawn,        \* history: the files round_robin drew, in order
    via,             \* history: the sampler that drew each member of starts
    wpc,             \* where write() is, or how it ended
    taken,           \* write: the number of placements the for loop has taken
    clips,           \* write: clips, the subclips cut for the current batch
    vids,            \* write: vids, the source handles of the current batch
    open,            \* the source handles that are open (by placement position)
    batches,         \* write: batches, the names of the batch files written
    batch,           \* write: batch, the number of the next batch file
    disk,            \* the batch files on disk: name -> the placements in it
    cut,             \* write: cut, the batch files opened for the result
    result,          \* write: result, the placements of the final video
    seed,            \* self.seed
    rand,            \* collage: rand, the generator: its stream and position
    tape,            \* the values each stream of random numbers has shown so far
    run,             \* the number of the run of collage() being made
    prev,            \* how the run before this one ended
    output,          \* the file at self.output: <<>> until it is written
    backend,         \* the class run() makes: "render" or "mlt"
    preview,         \* self.preview
    paths,           \* self.files as paths, each a list of path components
    world,           \* the file system: what opening or probing a path gives
    metadata_cache,  \* mltmaker: metadata_cache, path -> a dict on the heap
    heap,            \* the metadata dicts, by identity
    probes,          \* history: the paths ffprobe was run on, in order
    returned,        \* history: what each direct call of get_video_metadata gave
    mltclips,        \* MLTCollageMaker.write: mltclips
    idx,             \* generate_mlt_file: the files its for loop has taken
    profile_metadata,\* generate_mlt_file: profile_metadata, a dict on the heap
    video_metadata,  \* generate_mlt_file: video_metadata, filename -> dict
    filename_to_path,\* generate_mlt_file: filename_to_path
    chain_elements,  \* generate_mlt_file: chain_elements
    clip_chains,     \* generate_mlt_file: clip_chains
    black_out_tc,    \* generate_mlt_file: black_out_tc
    mlt              \* generate_mlt_file: mlt, the elements of the document

svars == <<files, period, length, shuffle, footage, footage_length, bag, starts,
           subclips, count, pc, handed, rr_drawn, via>>

wvars == <<wpc, taken, clips, vids, open, batches, batch, disk, cut, result,
           output>>

detvars == <<seed, rand, tape, run, prev>>

pvars == <<metadata_cache, heap, probes, returned>>

gvars == <<mltclips, idx, profile_metadata, video_metadata, filename_to_path,
           chain_elements, clip_chains, black_out_tc, mlt>>

mvars == <<backend, preview, paths, world, pvars, gvars>>

vars == <<svars, wvars, detvars, mvars>>

\* --------------------------------------------------------------- helpers
Abs(x) == IF x < 0 THEN -x ELSE x

RECURSIVE Sum(_)
Sum(s) == IF s = <<>> THEN 0 ELSE s[1] + Sum(Tail(s))

Range(s) == {s[j] : j \in 1..Len(s)}

\* the quotient rounded up instead
IntDivUp(a, b) == -((-a) \div b)

\* int(a / b) for b # 0: the quotient truncated toward zero
IntDiv(a, b) ==
    IF (a >= 0) = (b > 0) THEN Abs(a) \div Abs(b) ELSE -(Abs(a) \div Abs(b))

\* len(range(n))
RangeLen(n) == IF n > 0 THEN n ELSE 0

\* -------------------------------------------------------------- the data
VidData(start, filename, duration) ==
    [start |-> start, filename |-> filename, duration |-> duration]

ClipInfo(start, skip, filename, duration) ==
    [start |-> start, skip |-> skip, filename |-> filename, duration |-> duration]

\* @dataclass(order=True): VidData compares as (start, filename, duration)
VidLess(a, b) ==
    \/ a.start < b.start
    \/ a.start = b.start /\ a.filename < b.filename
    \/ a.start = b.start /\ a.filename = b.filename /\ a.duration < b.duration

\* @dataclass(order=True): ClipInfo compares as (start, skip, filename, duration)
ClipLess(a, b) ==
    \/ a.start < b.start
    \/ a.start = b.start /\ a.skip < b.skip
    \/ a.start = b.start /\ a.skip = b.skip /\ a.filename < b.filename
    \/ a.start = b.start /\ a.skip = b.skip /\ a.filename = b.filename
       /\ a.duration < b.duration

\* ------------------------------------------------------------------ load
\* CollageMaker.load: one VidData per file, start the running sum of durations
LoadFootage(fs) ==
    [j \in 1..Len(fs) |-> VidData(Sum(SubSeq(fs, 1, j - 1)), j, fs[j])]

\* ------------------------------------------------------------ the random
\* rand.uniform(a, b) = a + (b - a) * random(), with random() < 1, in binary
\* floating point: the end point b is returned when the sum rounds to it.
\* For b < a that is so for the largest values of random() whenever b is at
\* least four times a - b (the distance of the exact sum from b is then less
\* than half the spacing of the floats at b), and never when a = 0.  Only the
\* cases where the end point is sure to be a possible result are modelled as
\* reaching it.
RoundsToEnd(a, b) == b >= 4 * (a - b)

\* the same draw rounded down to a whole tick: it is below a tick t exactly
\* when the draw itself is
UniformFloor(a, b, u) == a + (((b - a) * u) \div RandMax)

Uniform(a, b, u) ==
    IF a <= b
    THEN a + (((b - a) * u) \div RandMax)
    ELSE LET x == a - (((a - b) * u) \div RandMax)
         IN  IF x = b /\ ~RoundsToEnd(a, b) THEN b + 1 ELSE x

\* rand.choice(seq)
Choice(seq, c) == seq[(c % Len(seq)) + 1]

\* a remove that removes nothing
RemoveNothing(seq, x) == seq

\* list.remove(x): drops the first member equal to x
RECURSIVE Remove(_, _)
Remove(seq, x) ==
    IF seq = <<>> THEN <<>>
    ELSE IF Head(seq) = x THEN Tail(seq)
    ELSE <<Head(seq)>> \o Remove(Tail(seq), x)

\* ------------------------------------------------------------- samplers
\* the videos time_random takes its max() over
Covering(fg, start) == {v \in Range(fg) : v.start <= start}

MaxVid(S) == CHOOSE v \in S : \A w \in S : w = v \/ VidLess(w, v)

\* time_random(): a poke into the timeline of the footage
time_random(fg, fl, p, u) ==
    LET start == Uniform(0, fl - p, u)
    IN  [start |-> start, vid |-> MaxVid(Covering(fg, start))]

\* round_robin(bag): a video out of the bag and a poke into it
round_robin(b, p, c, u) ==
    LET vid == Choice(b, c)
    IN  [start |-> Uniform(vid.start, vid.start + vid.duration - p, u),
         vid |-> vid,
         bag |-> Remove(b, vid)]

\* "Make sure the clip does not span past the end of the clip"
Fits(skip, vid, p) == skip + p <= vid.duration

\* the distance to the last accepted start only
FarFromLast(ss, start, p) ==
    ss = <<>> \/ Abs(ss[Len(ss)] - start) > p * 2

\* "Make sure clips don't overlap"
FarFromAll(ss, start, p) ==
    \A j \in 1..Len(ss) : Abs(ss[j] - start) > p * 2

\* subclips.sort()
RECURSIVE Insert(_, _)
Insert(x, seq) ==
    IF seq = <<>> THEN <<x>>
    ELSE IF ClipLess(x, Head(seq)) THEN <<x>> \o seq
    ELSE <<Head(seq)>> \o Insert(x, Tail(seq))

RECURSIVE Sort(_)
Sort(seq) == IF seq = <<>> THEN <<>> ELSE Insert(Head(seq), Sort(Tail(seq)))

\* the shuffle flag read the wrong way round
OrderedInverted(sc, sh) == IF sh THEN Sort(sc) ELSE sc

\* the list collage() passes on
Ordered(sc, sh) == IF sh THEN sc ELSE Sort(sc)

\* ----------------------------------------------------------------- write
\* f"temp{batch:04d}.mp4"
BatchFile(b) == b

\* a counter that is not advanced
SameBatch(b) == b

\* batch += 1
NextBatch(b) == b + 1

\* a test that forgets the last placement
BatchDueAtLimit(cl, pos, n) == Len(cl) >= LIMIT

\* the batch closed one placement late
BatchDueLate(cl, pos, n) == Len(cl) > LIMIT \/ pos = n

\* len(clips) >= LIMIT or clip is subclips[-1]
BatchDue(cl, pos, n) == Len(cl) >= LIMIT \/ pos = n

\* concatenate_videoclips: the clips one after the other
RECURSIVE Concat(_)
Concat(ss) == IF ss = <<>> THEN <<>> ELSE Head(ss) \o Concat(Tail(ss))

\* the state of write() before it is called
WriteIdle ==
    /\ wpc = "idle"
    /\ taken = 0
    /\ clips = <<>>
    /\ vids = <<>>
    /\ open = {}
    /\ batches = <<>>
    /\ batch = 0
    /\ disk = <<>>
    /\ cut = <<>>
    /\ result = <<>>
    /\ output = <<>>

\* ------------------------------------------------------ the media files
\* os.path.basename: the last component of a path
basename(path) == path[Len(path)]

\* what a function becomes when key is given the value val
Put(f, key, val) ==
    [q \in DOMAIN f \cup {key} |-> IF q = key THEN val ELSE f[q]]

\* a readable media file of duration d, and the two ways a file can fail
Media(d) == [state |-> "ok", duration |-> d]
Missing == [state |-> "missing", duration |-> 0]
Unreadable == [state |-> "unreadable", duration |-> 0]

\* ------------------------------------------------------------- the probe
\* get_video_metadata returns None
None == 0

\* get_video_metadata, lines 60-74: the initial values of metadata
Defaults ==
    [duration |-> 0, width |-> 1920, height |-> 1080,
     frame_rate_num |-> 30000, frame_rate_den |-> 1001,
     codec_name |-> "h264", pix_fmt |-> "yuv420p",
     sample_rate |-> 48000, audio_channels |-> 2, audio_codec |-> "aac"]

\* get_video_metadata, lines 76-119: the answer of ffprobe laid over them
Parsed(answer) == [Defaults EXCEPT !.duration = answer.duration]

\* get_video_metadata(video_path) on a cache, a heap and a file system: what
\* it returns (a dict on the heap, or None), what it leaves, and whether it
\* ran ffprobe.  A hit returns a copy of the cached dict; a file that is not
\* there returns None before ffprobe is run; a failure of ffprobe or of the
\* parsing returns None; a success stores a copy and returns the original.
\* Only the success reaches the assignment to the cache (line 121).
get_video_metadata(video_path, cache, hp, fs) ==
    IF video_path \in DOMAIN cache
    THEN [ret |-> Len(hp) + 1, cache |-> cache,
          heap |-> Append(hp, hp[cache[video_path]]), ffprobe |-> FALSE]
    ELSE IF fs[video_path].state = "missing"
    THEN [ret |-> None, cache |-> cache, heap |-> hp, ffprobe |-> FALSE]
    ELSE IF fs[video_path].state = "unreadable"
    THEN [ret |-> None, cache |-> cache, heap |-> hp, ffprobe |-> TRUE]
    ELSE [ret |-> Len(hp) + 1,
          cache |-> Put(cache, video_path, Len(hp) + 2),
          heap |-> hp \o <<Parsed(fs[video_path]), Parsed(fs[video_path])>>,
          ffprobe |-> TRUE]

\* the paths ffprobe has been run on once get_video_metadata has returned r
Probed(pr, video_path, r) == IF r.ffprobe THEN Append(pr, video_path) ELSE pr

\* time_to_timecode(seconds): hours, minutes, seconds and milliseconds
time_to_timecode(seconds) ==
    <<seconds \div 3600, (seconds % 3600) \div 60, seconds % 60,
      ((seconds % 1) * 1000) \div 1>>

\* calculate_hash(filename): the md5 of the name
calculate_hash(filename) == <<"md5", filename>>

\* f"chain{n}"
ChainId(n) == <<"chain", n>>

\* nothing has been probed
ProbeIdle ==
    /\ metadata_cache = <<>>
    /\ heap = <<>>
    /\ probes = <<>>
    /\ returned = <<>>

\* the state of generate_mlt_file before it is called
GenerateIdle ==
    /\ mltclips = <<>>
    /\ idx = 0
    /\ profile_metadata = None
    /\ video_metadata = <<>>
    /\ filename_to_path = <<>>
    /\ chain_elements = <<>>
    /\ clip_chains = <<>>
    /\ black_out_tc = <<>>
    /\ mlt = <<>>

\* the render backend on files that are all readable, each at its own path
PlainRender ==
    /\ backend = "render"
    /\ preview = FALSE
    /\ paths = [j \in 1..Len(files) |-> <<"footage", j>>]
    /\ world = [p \in Range(paths) |-> Media(files[p[2]])]
    /\ ProbeIdle
    /\ GenerateIdle

\* ---------------------------------------------------------- the generator
Seeds == {"amaze me"}

\* what the system's entropy source gives a generator made without a seed
Entropy(r) == IF r = 1 THEN "urandom 1" ELSE "urandom 2"

Streams == Seeds \cup {Entropy(1), Entropy(2)}

\* a generator that ignores its seed
RandomUnseeded(sd, entropy) == [stream |-> entropy, pos |-> 0]

\* random.Random(seed): the seed fixes the stream, which starts at its head
Random(sd, entropy) == [stream |-> sd, pos |-> 0]

\* a single run, its generator not followed
OneRun ==
    /\ seed \in Seeds
    /\ rand = Random(seed, Entropy(1))
    /\ tape = [st \in Streams |-> <<>>]
    /\ run = 1
    /\ prev = [pc |-> "none", handed |-> <<>>, consumed |-> 0]

\* ------------------------------------------------------------- the inputs
FileLists == UNION {[1..n -> 1..MaxDur] : n \in 1..MaxFiles}
Periods == (-1)..MaxPeriod
Lengths == 0..MaxLength
RandVals == 0..RandMax
\* rand.choice draws an index below len(seq)
ChoiceVals == 0..(MaxFiles - 1)

Init ==
    /\ files \in FileLists
    /\ period \in Periods
    /\ length \in Lengths
    /\ shuffle \in BOOLEAN
    /\ footage = <<>>
    /\ footage_length = 0
    /\ bag = <<>>
    /\ starts = <<>>
    /\ subclips = <<>>
    /\ count = 0
    /\ pc = "load"
    /\ handed = <<>>
    /\ rr_drawn = <<>>
    /\ via = <<>>
    /\ WriteIdle
    /\ OneRun
    /\ PlainRender

\* ------------------------------------------------------------ the actions
\* collage(), lines 74-91: the footage index, the empty lists and the bag
Load ==
    /\ pc = "load"
    /\ footage' = LoadFootage(files)
    /\ footage_length' = Sum(files)
    /\ subclips' = <<>>
    /\ starts' = <<>>
    /\ bag' = LoadFootage(files)
    /\ pc' = "range"
    /\ UNCHANGED <<files, period, length, shuffle, count, handed, rr_drawn, via>>
    /\ UNCHANGED wvars

\* collage(), line 102: range(int(self.length / self.period))
EnterLoop ==
    /\ pc = "range"
    /\ IF period = 0
       THEN pc' = "ZeroDivisionError" /\ count' = count
       ELSE /\ count' = RangeLen(IntDiv(length, period))
            /\ pc' = IF count' > 0 THEN "draw" ELSE "sort"
    /\ UNCHANGED <<files, period, length, shuffle, footage, footage_length, bag,
                   starts, subclips, handed, rr_drawn, via>>
    /\ UNCHANGED wvars

\* a loop that gives up at the first draw it rejects
ConsiderOnce(start, vid, sampler) ==
    LET skip == start - vid.start
    IN  IF Fits(skip, vid, period) /\ FarFromAll(starts, start, period)
        THEN /\ starts' = Append(starts, start)
             /\ subclips' = Append(subclips,
                                   ClipInfo(start, skip, vid.filename, period))
             /\ via' = Append(via, sampler)
             /\ pc' = IF Len(subclips') = count THEN "sort" ELSE "draw"
        ELSE pc' = "RuntimeError" /\ UNCHANGED <<starts, subclips, via>>

\* collage(), lines 108-116: the checks on a draw, and its acceptance; a
\* draw that fails them changes nothing, and the while loop takes another
Consider(start, vid, sampler) ==
    LET skip == start - vid.start
    IN  IF Fits(skip, vid, period) /\ FarFromAll(starts, start, period)
        THEN /\ starts' = Append(starts, start)
             /\ subclips' = Append(subclips,
                                   ClipInfo(start, skip, vid.filename, period))
             /\ via' = Append(via, sampler)
             /\ pc' = IF Len(subclips') = count THEN "sort" ELSE "draw"
        ELSE UNCHANGED <<starts, subclips, via, pc>>

\* one turn of the while loop with the bag not empty
DrawRoundRobin(c, u) ==
    /\ pc = "draw"
    /\ bag # <<>>
    /\ LET d == round_robin(bag, period, c, u)
       IN  /\ bag' = d.bag
           /\ rr_drawn' = Append(rr_drawn, d.vid.filename)
           /\ Consider(d.start, d.vid, "round_robin")
    /\ UNCHANGED <<files, period, length, shuffle, footage, footage_length,
                   count, handed>>
    /\ UNCHANGED wvars

\* one turn of the while loop with the bag empty; max() of no video raises
DrawTimeline(u) ==
    /\ pc = "draw"
    /\ bag = <<>>
    /\ IF Covering(footage, UniformFloor(0, footage_length - period, u)) = {}
       THEN pc' = "ValueError" /\ UNCHANGED <<starts, subclips, via>>
       ELSE LET d == time_random(footage, footage_length, period, u)
            IN  Consider(d.start, d.vid, "time_random")
    /\ UNCHANGED <<files, period, length, shuffle, footage, footage_length,
                   bag, count, handed, rr_drawn>>
    /\ UNCHANGED wvars

\* collage(), lines 118-121: the sort, and the call of self.write
Finish ==
    /\ pc = "sort"
    /\ subclips' = Ordered(subclips, shuffle)
    /\ handed' = subclips'
    /\ pc' = "write"
    /\ UNCHANGED <<files, period, length, shuffle, footage, footage_length,
                   bag, starts, count, rr_drawn, via>>
    /\ UNCHANGED wvars

Next ==
    \/ Load /\ UNCHANGED <<detvars, mvars>>
    \/ EnterLoop /\ UNCHANGED <<detvars, mvars>>
    \/ \E c \in ChoiceVals, u \in RandVals :
           DrawRoundRobin(c, u) /\ UNCHANGED <<detvars, mvars>>
    \/ \E u \in RandVals : DrawTimeline(u) /\ UNCHANGED <<detvars, mvars>>
    \/ Finish /\ UNCHANGED <<detvars, mvars>>

Spec == Init /\ [][Next]_vars

\* Scenario 1 of the specification: footage of 10 s and 5 s, a period of 2 s,
\* no shuffle, and every requested length up to its 12 s.
InitScenario1 ==
    /\ files = <<10, 5>>
    /\ period = 2
    /\ length \in 0..12
    /\ shuffle = FALSE
    /\ footage = <<>>
    /\ footage_length = 0
    /\ bag = <<>>
    /\ starts = <<>>
    /\ subclips = <<>>
    /\ count = 0
    /\ pc = "load"
    /\ handed = <<>>
    /\ rr_drawn = <<>>
    /\ via = <<>>
    /\ WriteIdle
    /\ OneRun
    /\ PlainRender

SpecScenario1 == InitScenario1 /\ [][Next]_vars

\* ------------------------------------------------------ the render backend
\* The scheduler's state when it has returned n placements, here cut every
\* three ticks from one file, with a period of one tick.
InitWrite ==
    \E n \in 0..MaxClips :
        /\ files = <<3 * n + 1>>
        /\ period = 1
        /\ length = n
        /\ shuffle = FALSE
        /\ footage = LoadFootage(files)
        /\ footage_length = Sum(files)
        /\ bag = IF n = 0 THEN footage ELSE <<>>
        /\ starts = [j \in 1..n |-> 3 * (j - 1)]
        /\ subclips = [j \in 1..n |-> ClipInfo(starts[j], starts[j], 1, period)]
        /\ count = n
        /\ pc = "write"
        /\ handed = subclips
        /\ rr_drawn = IF n = 0 THEN <<>> ELSE <<1>>
        /\ via = [j \in 1..n |-> IF j = 1 THEN "round_robin" ELSE "time_random"]
        /\ WriteIdle
        /\ OneRun
        /\ PlainRender

\* a write() that does not wait for collage() to call it
WriteBeginEarly ==
    /\ backend = "render"
    /\ wpc = "idle"
    /\ clips' = <<>>
    /\ vids' = <<>>
    /\ batches' = <<>>
    /\ batch' = 0
    /\ wpc' = "for"
    /\ UNCHANGED <<svars, detvars, mvars, output, taken, open, disk, cut, result>>

\* write(), lines 124-129
WriteBegin ==
    /\ pc = "write"
    /\ backend = "render"
    /\ wpc = "idle"
    /\ clips' = <<>>
    /\ vids' = <<>>
    /\ batches' = <<>>
    /\ batch' = 0
    /\ wpc' = "for"
    /\ UNCHANGED <<svars, detvars, mvars, output, taken, open, disk, cut, result>>

\* write(), lines 131-139: one placement is opened and cut
CutClip ==
    /\ wpc = "for"
    /\ taken < Len(handed)
    /\ taken' = taken + 1
    /\ open' = open \cup {taken'}
    /\ vids' = Append(vids, taken')
    /\ clips' = Append(clips, handed[taken'])
    /\ wpc' = IF BatchDue(clips', taken', Len(handed)) THEN "batch" ELSE "for"
    /\ UNCHANGED <<svars, detvars, mvars, output, batches, batch, disk, cut, result>>

\* write(), lines 140-152: the batch file is written
WriteBatch ==
    /\ wpc = "batch"
    /\ disk' = [f \in DOMAIN disk \cup {BatchFile(batch)} |->
                   IF f = BatchFile(batch) THEN clips ELSE disk[f]]
    /\ batches' = Append(batches, BatchFile(batch))
    /\ batch' = NextBatch(batch)
    /\ clips' = <<>>
    /\ wpc' = "close"
    /\ UNCHANGED <<svars, detvars, mvars, output, taken, vids, open, cut, result>>

\* write(), lines 153-155: the sources of the batch are closed
CloseVids ==
    /\ wpc = "close"
    /\ open' = open \ Range(vids)
    /\ vids' = <<>>
    /\ wpc' = "for"
    /\ UNCHANGED <<svars, detvars, mvars, output, taken, clips, batches, batch, disk, cut, result>>

\* write(), lines 157-164: the batch files are opened in the order of batches
OpenBatches ==
    /\ wpc = "for"
    /\ taken = Len(handed)
    /\ cut' = [j \in 1..Len(batches) |-> disk[batches[j]]]
    /\ wpc' = "concatenate"
    /\ UNCHANGED <<svars, detvars, mvars, output, taken, clips, vids, open, batches, batch, disk, result>>

\* write(), line 165: the media backend joins the batch files; what it does
\* with no clip at all is its own affair: it returns an empty video or raises
Concatenate ==
    /\ wpc = "concatenate"
    /\ result' = Concat(cut)
    /\ wpc' \in IF cut = <<>> THEN {"concatenated", "error"} ELSE {"concatenated"}
    /\ UNCHANGED <<svars, detvars, mvars, output, taken, clips, vids, open, batches, batch, disk, cut>>

\* write(), lines 167-177: the audio, cut to self.length, is laid under the
\* result, which is shown (preview) or written to self.output; the rotation
\* of lines 168-170 leaves the placements as they are
WriteOutput ==
    /\ wpc = "concatenated"
    /\ IF preview
       THEN wpc' = "previewed" /\ output' = output
       ELSE wpc' = "written" /\ output' = [video |-> result, audio |-> length]
    /\ UNCHANGED <<svars, detvars, mvars, taken, clips, vids, open, batches,
                   batch, disk, cut, result>>

NextWrite ==
    \/ WriteBegin
    \/ CutClip
    \/ WriteBatch
    \/ CloseVids
    \/ OpenBatches
    \/ Concatenate
    \/ WriteOutput

SpecWrite == InitWrite /\ [][NextWrite]_vars

\* ------------------------------------------------------------ repeated runs
\* Two runs of collage() on the same footage and policy, one after the
\* other.  The generator's stream is written down as it is first read.
DetRandVals == {0, (RandMax \div 2) + 1, RandMax}

\* the generator gives the values vals next
Reads(vals) ==
    LET t == tape[rand.stream]
        n == rand.pos
    IN  /\ n + Len(vals) <= MaxTape
        /\ \A j \in 1..Len(vals) : n + j <= Len(t) => t[n + j] = vals[j]
        /\ tape' = [tape EXCEPT ![rand.stream] =
                        IF n + Len(vals) > Len(t) THEN SubSeq(t, 1, n) \o vals
                        ELSE t]
        /\ rand' = [rand EXCEPT !.pos = n + Len(vals)]

Ended == pc \in {"write", "ValueError", "ZeroDivisionError"}

DetLoad ==
    /\ Load
    /\ rand' = Random(seed, Entropy(run))
    /\ UNCHANGED <<seed, tape, run, prev, mvars>>

DetEnterLoop == EnterLoop /\ UNCHANGED <<detvars, mvars>>

DetDrawRoundRobin ==
    \E c \in DetRandVals, u \in DetRandVals :
        /\ Reads(<<c, u>>)
        /\ DrawRoundRobin(c, u)
        /\ UNCHANGED <<seed, run, prev, mvars>>

DetDrawTimeline ==
    \E u \in DetRandVals :
        /\ Reads(<<u>>)
        /\ DrawTimeline(u)
        /\ UNCHANGED <<seed, run, prev, mvars>>

DetFinish == Finish /\ UNCHANGED <<detvars, mvars>>

\* the first run is over: the second starts from the same inputs
RunAgain ==
    /\ run = 1
    /\ Ended
    /\ prev' = [pc |-> pc, handed |-> handed, consumed |-> rand.pos]
    /\ run' = 2
    /\ footage' = <<>>
    /\ footage_length' = 0
    /\ bag' = <<>>
    /\ starts' = <<>>
    /\ subclips' = <<>>
    /\ count' = 0
    /\ pc' = "load"
    /\ handed' = <<>>
    /\ rr_drawn' = <<>>
    /\ via' = <<>>
    /\ UNCHANGED <<files, period, length, shuffle, seed, rand, tape, wvars, mvars>>

NextDet ==
    \/ DetLoad
    \/ DetEnterLoop
    \/ DetDrawRoundRobin
    \/ DetDrawTimeline
    \/ DetFinish
    \/ RunAgain

SpecDet == Init /\ [][NextDet]_vars

\* ----------------------------------------------- the project-file backend
\* an element of the document: ET.Element / ET.SubElement(mlt, tag, ...)
Element(tag, id, out, properties, entries) ==
    [tag |-> tag, id |-> id, out |-> out, properties |-> properties,
     entries |-> entries]

\* an entry of a playlist
Entry(producer, in, out) == [producer |-> producer, in |-> in, out |-> out]

\* generate_mlt_file, lines 168-173: the default HD profile
DefaultProfile ==
    [width |-> 1920, height |-> 1080,
     frame_rate_num |-> 30000, frame_rate_den |-> 1001]

\* generate_mlt_file, lines 159-173: the metadata of the first file, from the
\* k-th on, that can be probed, or else the default profile
RECURSIVE ProfileMetadata(_, _, _, _)
ProfileMetadata(k, cache, hp, pr) ==
    IF k > Len(paths)
    THEN [profile_metadata |-> Len(hp) + 1, cache |-> cache,
          heap |-> Append(hp, DefaultProfile), probes |-> pr]
    ELSE LET r == get_video_metadata(paths[k], cache, hp, world)
         IN  IF r.ret # None
             THEN [profile_metadata |-> r.ret, cache |-> r.cache,
                   heap |-> r.heap, probes |-> Probed(pr, paths[k], r)]
             ELSE ProfileMetadata(k + 1, r.cache, r.heap,
                                  Probed(pr, paths[k], r))

\* generate_mlt_file, lines 362-366: the greatest end of a clip
RECURSIVE MaxDuration(_)
MaxDuration(cs) ==
    IF cs = <<>> THEN 0
    ELSE LET rest == MaxDuration(SubSeq(cs, 1, Len(cs) - 1))
             end_time == cs[Len(cs)].start_time + cs[Len(cs)].duration
         IN  IF end_time > rest THEN end_time ELSE rest

\* generate_mlt_file, lines 458-462: the chains of that filename, and the id
\* of the first of them, at which the search stops
ChainsOf(cc, filename) == {j \in 1..Len(cc) : cc[j].filename = filename}

FirstChain(cc, filename) ==
    cc[CHOOSE j \in ChainsOf(cc, filename) :
           \A k \in ChainsOf(cc, filename) : j <= k].id

\* generate_mlt_file, lines 452-477: the entries of playlist0
RECURSIVE PlaylistEntries(_, _, _)
PlaylistEntries(cs, f2p, cc) ==
    IF cs = <<>> THEN <<>>
    ELSE LET clip == Head(cs)
             chain_id == FirstChain(cc, clip.filename)
             rest == PlaylistEntries(Tail(cs), f2p, cc)
         IN  IF clip.filename \notin DOMAIN f2p THEN rest
             ELSE IF ChainsOf(cc, clip.filename) = {} THEN rest
             ELSE <<Entry(chain_id, time_to_timecode(clip.start_time),
                          time_to_timecode(clip.start_time + clip.duration))>>
                  \o rest

\* MLTCollageMaker.write, lines 194-198: the clips by base filename, and the
\* call of generate_mlt_file
MltClips ==
    /\ pc = "write"
    /\ backend = "mlt"
    /\ wpc = "idle"
    /\ mltclips' = [j \in 1..Len(handed) |->
                       [filename |-> basename(paths[handed[j].filename]),
                        start_time |-> handed[j].skip,
                        duration |-> handed[j].duration]]
    /\ wpc' = "profile"
    /\ UNCHANGED <<svars, detvars, backend, preview, paths, world, pvars>>
    /\ UNCHANGED <<taken, clips, vids, open, batches, batch, disk, cut, result,
                   output>>
    /\ UNCHANGED <<idx, profile_metadata, video_metadata, filename_to_path,
                   chain_elements, clip_chains, black_out_tc, mlt>>

\* generate_mlt_file, lines 158-215: the profile
Profile ==
    /\ wpc = "profile"
    /\ LET r == ProfileMetadata(1, metadata_cache, heap, probes)
       IN  /\ profile_metadata' = r.profile_metadata
           /\ metadata_cache' = r.cache
           /\ heap' = r.heap
           /\ probes' = r.probes
           /\ mlt' = <<Element("profile", <<"profile">>, <<>>,
                               r.heap[r.profile_metadata], <<>>)>>
    /\ video_metadata' = <<>>
    /\ filename_to_path' = <<>>
    /\ chain_elements' = <<>>
    /\ idx' = 0
    /\ wpc' = "chains"
    /\ UNCHANGED <<svars, detvars, backend, preview, paths, world, returned>>
    /\ UNCHANGED <<taken, clips, vids, open, batches, batch, disk, cut, result,
                   output>>
    /\ UNCHANGED <<mltclips, clip_chains, black_out_tc>>

\* generate_mlt_file, lines 218-339: one turn of the loop over the files; a
\* file that cannot be probed gets a copy of the profile's metadata, and a
\* metadata without a duration raises at line 232
Chain ==
    /\ wpc = "chains"
    /\ idx < Len(paths)
    /\ LET video_path == paths[idx + 1]
           filename == basename(video_path)
           r == get_video_metadata(video_path, metadata_cache, heap, world)
           hp == IF r.ret = None
                 THEN Append(r.heap, r.heap[profile_metadata])
                 ELSE r.heap
           metadata == IF r.ret = None THEN Len(hp) ELSE r.ret
       IN  /\ filename_to_path' = Put(filename_to_path, filename, video_path)
           /\ metadata_cache' = r.cache
           /\ heap' = hp
           /\ probes' = Probed(probes, video_path, r)
           /\ video_metadata' = Put(video_metadata, filename, metadata)
           /\ IF "duration" \in DOMAIN hp[metadata]
              THEN /\ mlt' = Append(mlt,
                        Element("chain", ChainId(idx * 2),
                                time_to_timecode(hp[metadata].duration),
                                [resource |-> video_path,
                                 width |-> hp[metadata].width,
                                 hash |-> calculate_hash(filename)],
                                <<>>))
                   /\ chain_elements' = Append(chain_elements,
                        [id |-> ChainId(idx * 2), filename |-> filename,
                         path |-> video_path,
                         hash |-> calculate_hash(filename)])
                   /\ idx' = idx + 1
                   /\ wpc' = wpc
              ELSE /\ wpc' = "KeyError"
                   /\ UNCHANGED <<mlt, chain_elements, idx>>
    /\ UNCHANGED <<svars, detvars, backend, preview, paths, world, returned>>
    /\ UNCHANGED <<taken, clips, vids, open, batches, batch, disk, cut, result,
                   output>>
    /\ UNCHANGED <<mltclips, profile_metadata, clip_chains, black_out_tc>>

\* generate_mlt_file, lines 341-388: the main_bin playlist, the black
\* producer as long as the last clip ends, and the background playlist
MainBin ==
    /\ wpc = "chains"
    /\ idx = Len(paths)
    /\ black_out_tc' = time_to_timecode(MaxDuration(mltclips))
    /\ mlt' = mlt \o
         <<Element("playlist", <<"main_bin">>, <<>>, <<>>,
                   [j \in 1..Len(chain_elements) |->
                       Entry(chain_elements[j].id, time_to_timecode(0),
                             time_to_timecode(
                               heap[video_metadata[chain_elements[j].filename]]
                                 .duration))]),
           Element("producer", <<"black">>, black_out_tc', <<>>, <<>>),
           Element("playlist", <<"background">>, <<>>, <<>>,
                   <<Entry(<<"black">>, time_to_timecode(0), black_out_tc')>>)>>
    /\ wpc' = "clip_chains"
    /\ UNCHANGED <<svars, detvars, backend, preview, paths, world, pvars>>
    /\ UNCHANGED <<taken, clips, vids, open, batches, batch, disk, cut, result,
                   output>>
    /\ UNCHANGED <<mltclips, idx, profile_metadata, video_metadata,
                   filename_to_path, chain_elements, clip_chains>>

\* generate_mlt_file, lines 390-444: a second chain for each file
ClipChains ==
    /\ wpc = "clip_chains"
    /\ clip_chains' = [j \in 1..Len(chain_elements) |->
                          [id |-> ChainId((j - 1) * 2 + 1),
                           filename |-> chain_elements[j].filename]]
    /\ mlt' = mlt \o
         [j \in 1..Len(chain_elements) |->
             LET chain == chain_elements[j]
                 metadata == heap[video_metadata[chain.filename]]
             IN  Element("chain", ChainId((j - 1) * 2 + 1),
                         time_to_timecode(metadata.duration),
                         [resource |-> chain.path,
                          width |-> metadata.width,
                          hash |-> chain.hash],
                         <<>>)]
    /\ wpc' = "playlist"
    /\ UNCHANGED <<svars, detvars, backend, preview, paths, world, pvars>>
    /\ UNCHANGED <<taken, clips, vids, open, batches, batch, disk, cut, result,
                   output>>
    /\ UNCHANGED <<mltclips, idx, profile_metadata, video_metadata,
                   filename_to_path, chain_elements, black_out_tc>>

\* generate_mlt_file, lines 446-477: the main track
Playlist ==
    /\ wpc = "playlist"
    /\ mlt' = Append(mlt,
                Element("playlist", <<"playlist0">>, <<>>, <<>>,
                        PlaylistEntries(mltclips, filename_to_path,
                                        clip_chains)))
    /\ wpc' = "tractor"
    /\ UNCHANGED <<svars, detvars, backend, preview, paths, world, pvars>>
    /\ UNCHANGED <<taken, clips, vids, open, batches, batch, disk, cut, result,
                   output>>
    /\ UNCHANGED <<mltclips, idx, profile_metadata, video_metadata,
                   filename_to_path, chain_elements, clip_chains, black_out_tc>>

\* generate_mlt_file, lines 479-531: the tractor, and the document written
\* to output_file
WriteMlt ==
    /\ wpc = "tractor"
    /\ mlt' = Append(mlt,
                Element("tractor", <<"tractor0">>, black_out_tc, <<>>,
                        <<Entry(<<"background">>, <<>>, <<>>),
                          Entry(<<"playlist0">>, <<>>, <<>>)>>))
    /\ output' = mlt'
    /\ wpc' = "written"
    /\ UNCHANGED <<svars, detvars, backend, preview, paths, world, pvars>>
    /\ UNCHANGED <<taken, clips, vids, open, batches, batch, disk, cut, result>>
    /\ UNCHANGED <<mltclips, idx, profile_metadata, video_metadata,
                   filename_to_path, chain_elements, clip_chains, black_out_tc>>

\* ------------------------------------------------------------ a whole run
\* run(): a maker of either class on a few files, some of them missing or
\* unreadable, and its collage(): load, the scheduler, write.
MaxRunDur == 2
MaxRunLength == 2

\* two files of one name in two directories, and a third of another name
Paths == {<<"a", "GH010815.MP4">>, <<"b", "GH010815.MP4">>,
          <<"a", "GH010816.MP4">>}
PathLists == UNION {[1..n -> Paths] : n \in 1..MaxFiles}
Medias == {Missing, Unreadable} \cup {Media(d) : d \in 1..MaxRunDur}

InitRun ==
    /\ backend \in {"render", "mlt"}
    /\ preview \in IF backend = "render" THEN BOOLEAN ELSE {FALSE}
    /\ paths \in PathLists
    /\ world \in [Range(paths) -> Medias]
    /\ files = [j \in 1..Len(paths) |-> world[paths[j]].duration]
    /\ period \in 0..MaxPeriod
    /\ length \in 0..MaxRunLength
    /\ shuffle = FALSE
    /\ footage = <<>>
    /\ footage_length = 0
    /\ bag = <<>>
    /\ starts = <<>>
    /\ subclips = <<>>
    /\ count = 0
    /\ pc = "load"
    /\ handed = <<>>
    /\ rr_drawn = <<>>
    /\ via = <<>>
    /\ WriteIdle
    /\ OneRun
    /\ ProbeIdle
    /\ GenerateIdle

\* an offset that is not advanced
OffsetKept(offset, duration) == offset

\* offset += vid.duration
Offset(offset, duration) == offset + duration

\* CollageMaker.load, lines 63-67: one turn of the for loop; a file the media
\* backend cannot open raises
LoadVideoFileClip ==
    /\ pc = "load"
    /\ backend = "render"
    /\ Len(footage) < Len(paths)
    /\ LET fn == Len(footage) + 1
           vid == world[paths[fn]]
       IN  IF vid.state = "ok"
           THEN /\ footage' = Append(footage,
                                     VidData(footage_length, fn, vid.duration))
                /\ footage_length' = Offset(footage_length, vid.duration)
                /\ pc' = pc
           ELSE /\ pc' = "OSError"
                /\ UNCHANGED <<footage, footage_length>>
    /\ UNCHANGED <<files, period, length, shuffle, bag, starts, subclips, count,
                   handed, rr_drawn, via>>
    /\ UNCHANGED <<wvars, detvars, mvars>>

\* MLTCollageMaker.load, lines 185-189: one turn of the for loop; None has no
\* "duration"
LoadMetadata ==
    /\ pc = "load"
    /\ backend = "mlt"
    /\ Len(footage) < Len(paths)
    /\ LET fn == Len(footage) + 1
           r == get_video_metadata(paths[fn], metadata_cache, heap, world)
       IN  /\ metadata_cache' = r.cache
           /\ heap' = r.heap
           /\ probes' = Probed(probes, paths[fn], r)
           /\ IF r.ret # None
              THEN /\ footage' = Append(footage,
                          VidData(footage_length, fn, r.heap[r.ret].duration))
                   /\ footage_length' =
                          Offset(footage_length, r.heap[r.ret].duration)
                   /\ pc' = pc
              ELSE /\ pc' = "TypeError"
                   /\ UNCHANGED <<footage, footage_length>>
    /\ UNCHANGED <<files, period, length, shuffle, bag, starts, subclips, count,
                   handed, rr_drawn, via>>
    /\ UNCHANGED <<wvars, detvars, backend, preview, paths, world, returned,
                   gvars>>

\* load returns (lines 69, 191); collage(), lines 74-91
Loaded ==
    /\ pc = "load"
    /\ Len(footage) = Len(paths)
    /\ subclips' = <<>>
    /\ starts' = <<>>
    /\ bag' = footage
    /\ pc' = "range"
    /\ UNCHANGED <<files, period, length, shuffle, footage, footage_length,
                   count, handed, rr_drawn, via>>
    /\ UNCHANGED <<wvars, detvars, mvars>>

NextRun ==
    \/ LoadVideoFileClip
    \/ LoadMetadata
    \/ Loaded
    \/ EnterLoop /\ UNCHANGED <<detvars, mvars>>
    \/ \E c \in ChoiceVals, u \in DetRandVals :
           DrawRoundRobin(c, u) /\ UNCHANGED <<detvars, mvars>>
    \/ \E u \in DetRandVals : DrawTimeline(u) /\ UNCHANGED <<detvars, mvars>>
    \/ Finish /\ UNCHANGED <<detvars, mvars>>
    \/ WriteBegin
    \/ CutClip
    \/ WriteBatch
    \/ CloseVids
    \/ OpenBatches
    \/ Concatenate
    \/ WriteOutput
    \/ MltClips
    \/ Profile
    \/ Chain
    \/ MainBin
    \/ ClipChains
    \/ Playlist
    \/ WriteMlt

SpecRun == InitRun /\ [][NextRun]_vars

\* ------------------------------------------------------------ the claims
Returned == pc = "write"

\* the footage entry a placement was cut from
Owner(clip) == footage[clip.filename]

Inside(clip) ==
    clip.skip >= 0 /\ clip.skip + clip.duration <= Owner(clip).duration

\* C1: every placement the scheduler returns lies inside its footage entry:
\* source_offset >= 0 and source_offset + duration <= the entry's duration.
C1_PlacementsInsideEntry ==
    Returned => \A j \in 1..Len(handed) : Inside(handed[j])

\* C2: any two distinct placements start at least a period apart, at every
\* moment of the growing list of accepted placements.
C2_NoOverlap ==
    \A j, k \in 1..Len(subclips) :
        j # k => Abs(subclips[j].start - subclips[k].start) >= period

C2_Witness ==
    /\ pc = "draw"
    /\ Len(subclips) >= 2
    /\ \E j \in 1..Len(via) : via[j] = "time_random"

\* ceil(a / b) for b > 0
CeilDiv(a, b) == (a + b - 1) \div b

\* C3 as claimed: the scheduler returns ceil(total_length / period) placements.
C3_CountIsCeil ==
    (Returned /\ period > 0) => Len(handed) = CeilDiv(length, period)

\* C3 as amended: the scheduler returns int(total_length / period) placements,
\* the quotient rounded down: n * period <= total_length < (n + 1) * period
\* for a positive period, and none for a negative one.
C3_CountIsFloor ==
    Returned =>
        /\ period > 0 => /\ Len(handed) * period <= length
                         /\ length < (Len(handed) + 1) * period
        /\ period < 0 => Len(handed) = 0

C3_Witness ==
    /\ Returned
    /\ period = 2
    /\ length = 3
    /\ Len(handed) = 1

\* The state in units of half a tick.  The accepted starts are whole ticks, so
\* some real start passes both checks only if a multiple of half a tick does.
Halved(fg) == [j \in 1..Len(fg) |->
                  VidData(2 * fg[j].start, fg[j].filename, 2 * fg[j].duration)]

PassesAt(h) ==
    /\ Covering(Halved(footage), h) # {}
    /\ LET vid == MaxVid(Covering(Halved(footage), h))
       IN  /\ Fits(h - vid.start, vid, 2 * period)
           /\ FarFromAll([j \in 1..Len(starts) |-> 2 * starts[j]], h, 2 * period)

\* the bag is empty and no start the timeline sampler can draw is accepted:
\* the while loop retries for ever
DeadEnd ==
    /\ pc = "draw"
    /\ bag = <<>>
    /\ footage_length >= period
    /\ \A h \in 0..(2 * (footage_length - period)) : ~PassesAt(h)

\* C4: in scenario 1 with a length of 12 s the scheduler terminates (it never
\* comes to a state where every further draw is rejected) and returns exactly
\* 6 placements, sorted ascending by timeline_start, none overlapping.
C4_Scenario1Completes ==
    length = 12 =>
        /\ ~DeadEnd
        /\ Returned =>
              /\ Len(handed) = 6
              /\ \A j, k \in 1..Len(handed) :
                     j < k => handed[j].start + period <= handed[k].start

MinDur(fs) == CHOOSE d \in Range(fs) : \A e \in Range(fs) : d <= e

\* C5: with period <= 0 or period greater than the shortest entry the
\* scheduler ends in SchedulingInfeasible: it returns no list and fails with
\* no other error.
C5_InfeasibleIsReported ==
    (period <= 0 \/ period > MinDur(files)) =>
        pc \notin {"write", "ZeroDivisionError", "ValueError"}

NoDup(seq) == \A j, k \in 1..Len(seq) : j # k => seq[j] # seq[k]

Filenames(seq) == {seq[j].filename : j \in 1..Len(seq)}

\* C6: a second run of the scheduler on the same footage list and the same
\* policy, seed included, reads the same random values and ends as the first
\* did: the same outcome and the same placements in the same order.
C6_SameRunSameResult ==
    (run = 2 /\ Ended) =>
        /\ pc = prev.pc
        /\ handed = prev.handed
        /\ rand.pos = prev.consumed

C6_Witness ==
    /\ run = 2
    /\ pc = "write"
    /\ Len(handed) = 2
    /\ via = <<"round_robin", "time_random">>
    /\ rand.pos = 4
    /\ handed = prev.handed

\* C7 as claimed: the first N accepted placements come from N distinct files.
C7_FirstAcceptedDistinct ==
    (pc \in {"draw", "sort"} /\ Len(subclips) >= Len(files)) =>
        Cardinality(Filenames(SubSeq(subclips, 1, Len(files)))) = Len(files)

\* C7 as amended: the first N draws, accepted or rejected, are round-robin
\* draws that take each file once (the bag holds the files not yet drawn, and
\* the timeline sampler draws only once the bag is empty); the accepted
\* placements come from distinct files as long as no draw was rejected.
C7_EachFileDrawnOnce ==
    pc \notin {"load"} =>
        /\ NoDup(rr_drawn)
        /\ Filenames(bag) = (1..Len(files)) \ Range(rr_drawn)
        /\ (\E j \in 1..Len(via) : via[j] = "time_random") => bag = <<>>
        /\ (Len(via) = Len(rr_drawn) /\ Range(via) \subseteq {"round_robin"}) =>
               Cardinality(Filenames(subclips)) = Len(subclips)

C7_Witness ==
    /\ pc = "draw"
    /\ Len(files) = 2
    /\ rr_drawn = <<2, 1>>
    /\ Len(subclips) = 1
    /\ bag = <<>>

\* C8: the list handed to the backend is sorted ascending by timeline_start
\* when shuffle is false, and is the acceptance order when shuffle is true.
C8_OrderedByPolicy ==
    Returned =>
        /\ Len(handed) = Len(starts)
        /\ shuffle => \A j \in 1..Len(handed) : handed[j].start = starts[j]
        /\ ~shuffle => \A j, k \in 1..Len(handed) :
                           j < k => handed[j].start < handed[k].start
        /\ Range(handed) \subseteq
               {ClipInfo(starts[j], starts[j] - footage[f].start, f, period) :
                    j \in 1..Len(starts), f \in 1..Len(files)}

C8_Witness ==
    /\ Returned
    /\ ~shuffle
    /\ Len(handed) >= 2
    /\ starts[1] > starts[2]

\* C9: while write() cuts, at most LIMIT source handles are open at a time,
\* the open handles are those of the batch being cut, and none is open when
\* the next batch begins or when the cutting is over.
C9_OpenHandlesBounded ==
    /\ Cardinality(open) <= LIMIT
    /\ open = Range(vids)
    /\ open \subseteq (taken - Cardinality(open) + 1)..taken
    /\ (wpc = "for" /\ clips = <<>>) => open = {}
    /\ wpc \in {"concatenate", "concatenated", "error"} => open = {}

C9_Witness ==
    /\ wpc = "batch"
    /\ batch = 1
    /\ Cardinality(open) = LIMIT
    /\ taken < Len(handed)

\* the batch files written so far, read in the order they were made
Written == Concat([j \in 1..Len(batches) |-> disk[batches[j]]])

\* C10: the batch files are written in creation order, each after the one
\* before it (the files in that order, followed by the clips being cut, are
\* the placements taken so far, in list order); the final concatenation
\* begins only when every placement is in a batch file, reads the files in
\* creation order, and its result is the placement list in its order.
C10_BatchesInCreationOrder ==
    /\ \A j \in 1..Len(batches) : batches[j] = BatchFile(j - 1)
    /\ Len(batches) = batch
    /\ wpc # "idle" => Written \o clips = SubSeq(handed, 1, taken)
    /\ wpc \in {"concatenate", "concatenated", "error"} =>
           /\ clips = <<>>
           /\ taken = Len(handed)
           /\ Concat(cut) = handed
    /\ wpc = "concatenated" => result = handed

C10_Witness ==
    /\ wpc = "concatenated"
    /\ Len(batches) = 3
    /\ Len(cut) = 3
    /\ Len(result) > 2 * LIMIT
    /\ result = handed

\* ------------------------------------------------------ the probe, called
\* A caller of mltmaker calls get_video_metadata a few times on the paths of
\* a file system, and changes the dicts it was given as it likes.
MaxCalls == 3

InitProbe ==
    /\ backend = "mlt"
    /\ preview = FALSE
    /\ paths = <<>>
    /\ world \in [Paths -> Medias]
    /\ files = <<>>
    /\ period = 1
    /\ length = 0
    /\ shuffle = FALSE
    /\ footage = <<>>
    /\ footage_length = 0
    /\ bag = <<>>
    /\ starts = <<>>
    /\ subclips = <<>>
    /\ count = 0
    /\ pc = "load"
    /\ handed = <<>>
    /\ rr_drawn = <<>>
    /\ via = <<>>
    /\ WriteIdle
    /\ OneRun
    /\ ProbeIdle
    /\ GenerateIdle

\* a call of get_video_metadata(video_path); what it returned is written down
\* as it was when it returned
Call(video_path) ==
    /\ Len(returned) < MaxCalls
    /\ LET r == get_video_metadata(video_path, metadata_cache, heap, world)
       IN  /\ metadata_cache' = r.cache
           /\ heap' = r.heap
           /\ probes' = Probed(probes, video_path, r)
           /\ returned' = Append(returned,
                  [path |-> video_path, ret |-> r.ret,
                   metadata |-> IF r.ret = None THEN <<>>
                                ELSE <<r.heap[r.ret]>>])
    /\ UNCHANGED <<svars, wvars, detvars, backend, preview, paths, world, gvars>>

\* the caller sets the duration in a dict it was given
Mutate(k, d) ==
    /\ returned[k].ret # None
    /\ heap[returned[k].ret].duration # d
    /\ heap' = [heap EXCEPT ![returned[k].ret].duration = d]
    /\ UNCHANGED <<svars, wvars, detvars, backend, preview, paths, world,
                   metadata_cache, probes, returned, gvars>>

NextProbe ==
    \/ \E video_path \in Paths : Call(video_path)
    \/ \E k \in 1..Len(returned), d \in 0..MaxRunDur : Mutate(k, d)

SpecProbe == InitProbe /\ [][NextProbe]_vars

\* an intermediate batch file, or the file at self.output (the final video
\* or the project file), has been written
Artifact == disk # <<>> \/ output # <<>>

\* C11: no file (intermediate batch file, final video or project file) is
\* written before indexing and scheduling have both completed: as long as
\* collage() has not come to its call of self.write (the footage index or the
\* scheduler is still running, has failed, or retries without end), no
\* artifact has been written and neither backend has begun.
C11_NoArtifactBeforeScheduled ==
    ~Returned => ~Artifact /\ wpc = "idle"

\* the scheduler retries without end after one placement, nothing written
C11_Witness ==
    /\ DeadEnd
    /\ Len(starts) = 1
    /\ ~Artifact

\* the number of times ffprobe was run on a path
Invocations(video_path) ==
    Cardinality({j \in 1..Len(probes) : probes[j] = video_path})

\* C12: for any path, two calls of get_video_metadata in one run return equal
\* metadata and make at most one invocation of ffprobe in total, whatever the
\* first call returned and whatever the caller did to the dict it was given.
C12_ProbeCacheIdempotent ==
    /\ \A video_path \in Paths : Invocations(video_path) <= 1
    /\ \A j, k \in 1..Len(returned) :
           returned[j].path = returned[k].path =>
               returned[j].metadata = returned[k].metadata

\* a source file that cannot be probed
ProbeFails == \E j \in 1..Len(paths) : world[paths[j]].state # "ok"

\* C13: a probe failure is not fatal to the project-file backend: whatever
\* files get_video_metadata returns None for, the run of MLTCollageMaker
\* (load, the scheduler, generate_mlt_file) ends in no error of load or of
\* generate_mlt_file, and goes on to write the project file.
C13_ProbeFailureNotFatal ==
    (backend = "mlt" /\ ProbeFails) =>
        pc # "TypeError" /\ wpc # "KeyError"

\* the entries of the main track of a document
MainTrack(doc) ==
    (CHOOSE e \in Range(doc) : e.tag = "playlist" /\ e.id = <<"playlist0">>)
        .entries

\* the chains of a document that an entry of a playlist can name
ChainsIn(doc) == {e \in Range(doc) : e.tag = "chain"}

\* two files of the list have one base filename in two directories
SameBasename ==
    \E i, j \in 1..Len(paths) :
        paths[i] # paths[j] /\ basename(paths[i]) = basename(paths[j])

\* C14: when two source files in different directories have the same base
\* filename, the files get distinct producer ids and every entry of the main
\* track names the producer of the file its placement was cut from, a chain
\* with that file's path and that file's duration.
C14_SameBasenameUnambiguous ==
    (backend = "mlt" /\ wpc = "written" /\ SameBasename) =>
        /\ \A i, j \in 1..Len(clip_chains) :
               i # j => clip_chains[i].id # clip_chains[j].id
        /\ Len(MainTrack(output)) = Len(handed)
        /\ \A j \in 1..Len(handed) :
               \E e \in ChainsIn(output) :
                   /\ e.id = MainTrack(output)[j].producer
                   /\ e.properties.resource = paths[handed[j].filename]
                   /\ e.out = time_to_timecode(
                                  world[paths[handed[j].filename]].duration)

\* C15: load returns the entries in input order (the j-th entry is the j-th
\* file, with the duration of that file), the first starting at 0 and each
\* other where the one before it ends, and a total length that is the sum of
\* the durations; so for CollageMaker.load and for MLTCollageMaker.load.
C15_FootageIndex ==
    /\ \A j \in 1..Len(footage) :
           /\ footage[j].filename = j
           /\ footage[j].duration = world[paths[j]].duration
           /\ footage[j].start =
                  IF j = 1 THEN 0
                  ELSE footage[j - 1].start + footage[j - 1].duration
    /\ footage_length = Sum([j \in 1..Len(footage) |-> footage[j].duration])
    /\ pc \notin {"load", "OSError", "TypeError"} => Len(footage) = Len(paths)

\* MLTCollageMaker.load has returned two entries, the second after the first
C15_Witness ==
    /\ backend = "mlt"
    /\ pc = "range"
    /\ Len(footage) = 2
    /\ footage[2].start = footage[1].duration
    /\ footage[1].duration # footage[2].duration
    /\ footage_length = footage[1].duration + footage[2].duration

\* C16: when total_length < period (total_length = 0 among them) the
\* scheduler makes no draw and returns an empty list, and each backend takes
\* the empty list and ends without an error: the render backend writes no
\* batch file, the project-file backend writes a main track of no entries and
\* a background of length 0.
C16_EmptyListAccepted ==
    (period > 0 /\ length < period) =>
        /\ pc # "draw"
        /\ Returned => handed = <<>>
        /\ disk = <<>>
        /\ wpc \notin {"error", "KeyError"}
        /\ (backend = "mlt" /\ wpc = "written") =>
               /\ MainTrack(output) = <<>>
               /\ black_out_tc = time_to_timecode(0)

\* the longest file
MaxDurOf(fs) == CHOOSE d \in Range(fs) : \A e \in Range(fs) : e <= d

Cut == wpc \in {"concatenate", "concatenated", "error", "written", "previewed"}

\* C18: the batches partition the placement list.  The j-th batch file
\* holds the run of the list that begins after (j - 1) * LIMIT placements;
\* it holds at least one placement and at most LIMIT, and fewer than LIMIT
\* only if it is the last and the list ends with it; no batch file is
\* written twice; and when the loop is over the batch files, one after the
\* other, are the list: every placement is in exactly one of them.
C18_BatchesPartition ==
    /\ DOMAIN disk = Range(batches)
    /\ \A j, k \in 1..Len(batches) : batches[j] = batches[k] => j = k
    /\ \A j \in 1..Len(batches) :
           LET b == disk[batches[j]]
           IN  /\ Len(b) >= 1
               /\ Len(b) <= LIMIT
               /\ b = SubSeq(handed, (j - 1) * LIMIT + 1,
                             (j - 1) * LIMIT + Len(b))
               /\ Len(b) < LIMIT =>
                      j = Len(batches) /\ (j - 1) * LIMIT + Len(b) = Len(handed)
    /\ Cut => Written = handed

\* 42 placements are cut into batches of 20, 20 and 2
C18_Witness ==
    /\ wpc = "concatenate"
    /\ Len(handed) = 2 * LIMIT + 2
    /\ Len(batches) = 3
    /\ Len(disk[batches[1]]) = LIMIT
    /\ Len(disk[batches[2]]) = LIMIT
    /\ Len(disk[batches[3]]) = 2

====
